---------------------------- MODULE Spec2Model ----------------------------
(***************************************************************************)
(* Pico-Remote-Analyzer: the interrupt-time edge capture                   *)
(* (isr_signal_trap), the burst buffer and its reset                       *)
(* (init_burst_variables), the main loop that hands a burst to the         *)
(* decoder, and the per-brand decoder decode_ir_command (Samsung.c and     *)
(* Memorex.c, which differ only in NUMBER_OF_STEPS and the button table).  *)
(*                                                                         *)
(* Widths.  UINT64 and UINT32 quantities are kept as tuples of 16-bit      *)
(* limbs, most significant first (4 limbs and 2 limbs), so that the casts  *)
(* and wrap-arounds of the C code are computed exactly.  UINT16 and UINT8  *)
(* quantities are naturals reduced modulo 2^16 and 2^8.                    *)
(*                                                                         *)
(* Scheduling.  The interrupt handler runs to completion and may run       *)
(* between any two steps of the main context (one core, no interrupt       *)
(* masking anywhere in the source).  The main context is cut at every      *)
(* loop iteration and at every blocking call.                              *)
(***************************************************************************)
EXTENDS Naturals, Integers, Sequences, FiniteSets

(***************************************************************************)
(* Program constants.                                                      *)
(***************************************************************************)
IR_RX                  == 22
FLAG_OFF               == 0
FLAG_ON                == 1
MAX_BUTTONS            == 128
MAX_IR_READINGS        == 500
REMOTE_DATA_SIZE       == 256
GPIO_IRQ_EDGE_FALL     == 4
GPIO_IRQ_EDGE_RISE     == 8
NUMBER_OF_BITS         == 32
NUMBER_OF_WAKEUP_STEPS == 2
SEPARATOR              == 10000
TRIGGER_POINT_0_1      == 750
LEVEL_UNDEFINED        == 2

NUMBER_OF_STEPS(brand) == IF brand = "Samsung" THEN 135 ELSE 73

(***************************************************************************)
(* Bounds of the model.                                                    *)
(***************************************************************************)
MaxEdges   == 3    \* interrupts delivered in one run of the whole program
MaxOverrun == 2    \* interrupts delivered past the capacity of the buffer
MaxShort   == 6    \* longest burst of freely chosen durations
MaxRecords == 2    \* buttons recorded in one run
MaxCapture == 5    \* calls of the handler in a run of the capture alone
MaxIdle    == 1    \* idle periods of 2^32 microseconds in a run of the capture

(***************************************************************************)
(* Fixed-width arithmetic on 16-bit limbs.                                 *)
(***************************************************************************)
B16 == 65536

Zero64 == <<0, 0, 0, 0>>
Zero32 == <<0, 0>>

\* a natural below 2^31 as a UINT64
U64(n) == <<0, 0, n \div B16, n % B16>>

\* x + y modulo 2^64
Add64(x, y) ==
  LET s4 == x[4] + y[4]
      s3 == x[3] + y[3] + (s4 \div B16)
      s2 == x[2] + y[2] + (s3 \div B16)
      s1 == x[1] + y[1] + (s2 \div B16)
  IN  <<s1 % B16, s2 % B16, s3 % B16, s4 % B16>>

\* x - y modulo 2^64
Sub64(x, y) ==
  LET d4 == x[4] - y[4]
      b4 == IF d4 < 0 THEN 1 ELSE 0
      d3 == x[3] - y[3] - b4
      b3 == IF d3 < 0 THEN 1 ELSE 0
      d2 == x[2] - y[2] - b3
      b2 == IF d2 < 0 THEN 1 ELSE 0
      d1 == x[1] - y[1] - b2
  IN  <<(d1 + B16) % B16, (d2 + B16) % B16, (d3 + B16) % B16, (d4 + B16) % B16>>

\* a cast that keeps the largest UINT32 for a value that does not fit
Trunc32Saturating(x) ==
  IF x[1] = 0 /\ x[2] = 0 THEN <<x[3], x[4]>> ELSE <<B16 - 1, B16 - 1>>

\* the cast (UINT32) of a UINT64: its low 32 bits
Trunc32(x) == <<x[3], x[4]>>

\* a UINT32 compared with a natural below 2^31
Gt32(r, n) == \/ r[1] > n \div B16
              \/ r[1] = n \div B16 /\ r[2] > n % B16
Lt32(r, n) == \/ r[1] < n \div B16
              \/ r[1] = n \div B16 /\ r[2] < n % B16

\* x <<= 1 on a UINT64
Shl64(x) ==
  LET s4 == 2 * x[4]
      s3 == 2 * x[3] + (s4 \div B16)
      s2 == 2 * x[2] + (s3 \div B16)
      s1 == 2 * x[1] + (s2 \div B16)
  IN  <<s1 % B16, s2 % B16, s3 % B16, s4 % B16>>

\* ++x on a UINT64
Inc64(x) == Add64(x, U64(1))

\* x < y on UINT64
Lt64(x, y) ==
  \/ x[1] < y[1]
  \/ x[1] = y[1] /\ x[2] < y[2]
  \/ x[1] = y[1] /\ x[2] = y[2] /\ x[3] < y[3]
  \/ x[1] = y[1] /\ x[2] = y[2] /\ x[3] = y[3] /\ x[4] < y[4]

(***************************************************************************)
(* State.                                                                  *)
(***************************************************************************)
VARIABLES
  IrFinalValue,     \* [0..MAX_IR_READINGS-1 -> UINT64]
  IrInitialValue,   \* [0..MAX_IR_READINGS-1 -> UINT64]
  IrLevel,          \* [0..MAX_IR_READINGS-1 -> 0..255]
  IrResultValue,    \* [0..MAX_IR_READINGS-1 -> UINT32]
  IrStepCount,      \* UINT16
  Overrun,          \* indices >= MAX_IR_READINGS the handler has written at
  ButtonName,       \* name typed for the burst being decoded
  RemoteData,       \* the recorded buttons, as far as they have been written
  RemoteDataTotal,  \* UINT16
  now,              \* time_us_64() at its last reading
  line,             \* level of the IR_RX input: 1 idle (pull-up), 0 active
  edges,            \* interrupts delivered since the initial state
  pc,               \* position of the main context
  Loop1UInt,        \* init_burst_variables: loop counter
  brand,            \* REMOTE_FILENAME: the decoder compiled in
  BitNumber,        \* decode_ir_command locals
  FlagError,
  Loop1UInt16,
  Loop2UInt16,
  DataBuffer,
  EndOfData,        \* steps printed by "Reaching end of data bits at Step"
  ErrorLog,         \* events sent by uart_send "Error IrLevel <L>"
  StepReport,       \* the "(should be N)" lines printed: step count and N
  MaxRead           \* highest index decode_ir_command has read, -1 if none

capture == <<IrFinalValue, IrInitialValue, IrLevel, IrResultValue, IrStepCount, Overrun>>
clock   == <<now, line, edges>>
decoder == <<BitNumber, FlagError, Loop1UInt16, Loop2UInt16, DataBuffer, EndOfData, ErrorLog,
            StepReport, MaxRead>>
buttons == <<ButtonName, RemoteData, RemoteDataTotal>>
vars    == <<capture, clock, decoder, buttons, pc, Loop1UInt, brand>>

Slots == 0 .. (MAX_IR_READINGS - 1)

(***************************************************************************)
(* The capture state as one value, so that the interrupt handler is a      *)
(* function of it.                                                         *)
(***************************************************************************)
Cap == [IrFinalValue   |-> IrFinalValue,
        IrInitialValue |-> IrInitialValue,
        IrLevel        |-> IrLevel,
        IrResultValue  |-> IrResultValue,
        IrStepCount    |-> IrStepCount,
        Overrun        |-> Overrun]

\* the buffer as init_burst_variables leaves it
ClearCap == [IrFinalValue   |-> [k \in Slots |-> Zero64],
             IrInitialValue |-> [k \in Slots |-> Zero64],
             IrLevel        |-> [k \in Slots |-> LEVEL_UNDEFINED],
             IrResultValue  |-> [k \in Slots |-> Zero32],
             IrStepCount    |-> 0,
             Overrun        |-> {}]

\* array[k] = v.  The arrays have MAX_IR_READINGS elements and the handler
\* checks no index: a store at k >= MAX_IR_READINGS lands outside the array.
\* The model records the index in Overrun and leaves the array as it is;
\* what the store overwrites instead is chosen in Stray.
Store(c, array, k, v) ==
  IF k \in Slots
    THEN [c EXCEPT ![array] = [@ EXCEPT ![k] = v]]
    ELSE [c EXCEPT !.Overrun = @ \cup {k}]

\* Events & GPIO_IRQ_EDGE_RISE, Events & GPIO_IRQ_EDGE_FALL
HasRise(Events) == (Events \div GPIO_IRQ_EDGE_RISE) % 2 = 1
HasFall(Events) == (Events \div GPIO_IRQ_EDGE_FALL) % 2 = 1

\* the duration stored for slot k once its final value is t.  For k outside
\* the array the value is stored outside the array too, and is not kept.
Duration(c, k, t) ==
  IF k \in Slots THEN Trunc32(Sub64(t, c.IrInitialValue[k])) ELSE Zero32

\* the low-to-high branch; t1 and t2 are its two readings of time_us_64()
RiseBranch(c, t1, t2) ==
  LET k  == c.IrStepCount
      c1 == Store(c, "IrFinalValue", k, t1)
      c2 == Store(c1, "IrResultValue", k, Duration(c1, k, t1))
      c3 == Store(c2, "IrLevel", k, 0)
      c4 == [c3 EXCEPT !.IrStepCount = (k + 1) % B16]
  IN  Store(c4, "IrInitialValue", c4.IrStepCount, t2)

\* the high-to-low branch; t1 and t2 are its two readings of time_us_64()
FallBranch(c, t1, t2) ==
  LET k  == c.IrStepCount
      c1 == Store(c, "IrFinalValue", k, t1)
      c2 == Store(c1, "IrResultValue", k, Duration(c1, k, t1))
      c3 == Store(c2, "IrLevel", k, 1)
      c4 == IF k > 0 THEN [c3 EXCEPT !.IrStepCount = (k + 1) % B16] ELSE c
  IN  Store(c4, "IrInitialValue", c4.IrStepCount, t2)

\* the handler without the test of gpio
isr_signal_trap_any_pin(c, gpio, Events, t, skew) ==
  LET s  == U64(skew)
      r1 == t
      r2 == Add64(r1, s)
      f1 == IF HasRise(Events) THEN Add64(r2, s) ELSE t
      f2 == Add64(f1, s)
      cr == IF HasRise(Events) THEN RiseBranch(c, r1, r2) ELSE c
  IN  IF HasFall(Events) THEN FallBranch(cr, f1, f2) ELSE cr

\* the handler: t is the time of its first reading, each later reading is
\* skew later than the one before
isr_signal_trap(c, gpio, Events, t, skew) ==
  IF gpio # IR_RX THEN c
  ELSE LET s  == U64(skew)
           r1 == t
           r2 == Add64(r1, s)
           f1 == IF HasRise(Events) THEN Add64(r2, s) ELSE t
           f2 == Add64(f1, s)
           cr == IF HasRise(Events) THEN RiseBranch(c, r1, r2) ELSE c
       IN  IF HasFall(Events) THEN FallBranch(cr, f1, f2) ELSE cr

\* Where a store past the end of an array lands depends on what the build
\* places behind the array: nothing the program uses ("none"), or another of
\* the capture arrays (IrLevel is declared behind IrInitialValue).
Spills == {"none", "IrLevel", "IrResultValue"}

\* byte b of the UINT64 t as the little-endian target stores it
Byte(t, b) ==
  LET limb == t[4 - (b \div 2)]
  IN  IF b % 2 = 0 THEN limb % 256 ELSE limb \div 256

\* the capture c left by a call of the handler whose last store,
\* IrInitialValue[IrStepCount] = t, was made at or past MAX_IR_READINGS,
\* when the array named by spill lies behind IrInitialValue: the eight bytes
\* of t cover eight elements of IrLevel, or two of IrResultValue
Stray(c, spill, t) ==
  LET j == c.IrStepCount - MAX_IR_READINGS
  IN  IF spill = "none" \/ j < 0 \/ 8 * j + 7 \notin Slots THEN c
      ELSE IF spill = "IrLevel"
             THEN [c EXCEPT !.IrLevel =
                     [k \in Slots |-> IF k \in (8 * j) .. (8 * j + 7)
                                        THEN Byte(t, k - 8 * j) ELSE @[k]]]
             ELSE [c EXCEPT !.IrResultValue =
                     [@ EXCEPT ![2 * j] = <<t[3], t[4]>>, ![2 * j + 1] = <<t[1], t[2]>>]]

\* time_us_64() at the handler's last reading
LastReading(gpio, Events, t, skew) ==
  LET n == (IF gpio = IR_RX /\ HasRise(Events) THEN 2 ELSE 0)
         + (IF gpio = IR_RX /\ HasFall(Events) THEN 2 ELSE 0)
  IN  IF n = 0 THEN t ELSE Add64(t, U64((n - 1) * skew))


(***************************************************************************)
(* Inputs of the model.                                                    *)
(***************************************************************************)
Boot      == U64(1000)                 \* time_us_64() when the main loop starts
Ticks     == {550}                     \* microseconds between two edges
Names     == {"Power", "TV"}           \* button names the user types
Garbage16 == {0, 1, 2}                 \* contents of an unassigned UINT16 local
JunkDur   == {Zero32, <<0, 1675>>}     \* IrResultValue read outside the array
JunkLevel == {0, 1, LEVEL_UNDEFINED}   \* IrLevel read outside the array
NoButton  == [ButtonName |-> "", CommandId |-> Zero64]
Recorded  == [ButtonName |-> "Power", CommandId |-> <<0, 0, \hE0E0, \h40BF>>]

(***************************************************************************)
(* The interrupt handler as a step of the system.                          *)
(***************************************************************************)
SetCap(c) ==
  /\ IrFinalValue'   = c.IrFinalValue
  /\ IrInitialValue' = c.IrInitialValue
  /\ IrLevel'        = c.IrLevel
  /\ IrResultValue'  = c.IrResultValue
  /\ IrStepCount'    = c.IrStepCount
  /\ Overrun'        = c.Overrun

\* one edge of the IR_RX input, delivered to the handler before the next one
\* (the input alternates: a falling edge leaves the idle level, a rising
\* edge returns to it).  spillSet names the places a store past the arrays
\* can land.
Edge(tickSet, skewSet, spillSet, limit) ==
  \E tick \in tickSet, skew \in skewSet, spill \in spillSet :
    LET Events == IF line = 1 THEN GPIO_IRQ_EDGE_FALL ELSE GPIO_IRQ_EDGE_RISE
        t      == Add64(now, U64(tick))
        c      == isr_signal_trap(Cap, IR_RX, Events, t, skew)
        last   == LastReading(IR_RX, Events, t, skew)
    IN  /\ edges < limit
        /\ spill = "none" \/ c.IrStepCount >= MAX_IR_READINGS
        /\ SetCap(Stray(c, spill, last))
        /\ now'   = last
        /\ line'  = 1 - line
        /\ edges' = edges + 1
        /\ UNCHANGED <<decoder, buttons, pc, Loop1UInt, brand>>

\* two edges latched before the handler runs: it sees both event bits
EdgePair(tickSet, skewSet, limit) ==
  \E tick \in tickSet, skew \in skewSet :
    LET Events == GPIO_IRQ_EDGE_FALL + GPIO_IRQ_EDGE_RISE
        t      == Add64(now, U64(tick))
    IN  /\ edges < limit
        /\ SetCap(isr_signal_trap(Cap, IR_RX, Events, t, skew))
        /\ now'   = LastReading(IR_RX, Events, t, skew)
        /\ edges' = edges + 1
        /\ UNCHANGED <<line, decoder, buttons, pc, Loop1UInt, brand>>

\* the handler called for another pin, or with no edge bit set (bits 1 and 2
\* of Events are the level events)
Foreign(limit) ==
  \E gpio \in {IR_RX, 0, IR_RX + 1},
     Events \in {0, 1, 2, 3, GPIO_IRQ_EDGE_FALL, GPIO_IRQ_EDGE_RISE,
                 GPIO_IRQ_EDGE_FALL + GPIO_IRQ_EDGE_RISE} :
    /\ gpio # IR_RX \/ (~HasRise(Events) /\ ~HasFall(Events))
    /\ edges < limit
    /\ SetCap(isr_signal_trap(Cap, gpio, Events, now, 0))
    /\ edges' = edges + 1
    /\ UNCHANGED <<now, line, decoder, buttons, pc, Loop1UInt, brand>>

\* the input stays as it is for 2^32 microseconds: time_us_64() moves on and
\* the handler is not called
Idle(limit) ==
  /\ now[2] < limit
  /\ now' = Add64(now, <<0, 1, 0, 0>>)
  /\ UNCHANGED <<capture, line, edges, decoder, buttons, pc, Loop1UInt, brand>>

(***************************************************************************)
(* init_burst_variables.                                                   *)
(***************************************************************************)
\* IrStepCount = 0, and the loop's Loop1UInt = 0
ResetCount ==
  /\ pc = "init"
  /\ IrStepCount' = 0
  /\ Loop1UInt' = 0
  /\ pc' = "clear"
  /\ UNCHANGED <<IrFinalValue, IrInitialValue, IrLevel, IrResultValue, Overrun,
                 clock, decoder, buttons, brand>>

\* one iteration of the clearing loop
ClearSlot ==
  /\ pc = "clear"
  /\ Loop1UInt < MAX_IR_READINGS
  /\ IrInitialValue' = [IrInitialValue EXCEPT ![Loop1UInt] = Zero64]
  /\ IrFinalValue'   = [IrFinalValue   EXCEPT ![Loop1UInt] = Zero64]
  /\ IrResultValue'  = [IrResultValue  EXCEPT ![Loop1UInt] = Zero32]
  /\ IrLevel'        = [IrLevel        EXCEPT ![Loop1UInt] = LEVEL_UNDEFINED]
  /\ Loop1UInt' = Loop1UInt + 1
  /\ UNCHANGED <<IrStepCount, Overrun, clock, decoder, buttons, pc, brand>>

\* the count zeroed after the clearing loop instead of before it
ResetReturnZeroes ==
  /\ pc = "clear"
  /\ Loop1UInt >= MAX_IR_READINGS
  /\ IrStepCount' = 0
  /\ pc' = "wait"
  /\ UNCHANGED <<IrFinalValue, IrInitialValue, IrLevel, IrResultValue, Overrun,
                 clock, decoder, buttons, Loop1UInt, brand>>

\* the loop ends and init_burst_variables returns to the main loop
ResetReturn ==
  /\ pc = "clear"
  /\ Loop1UInt >= MAX_IR_READINGS
  /\ pc' = "wait"
  /\ UNCHANGED <<capture, clock, decoder, buttons, Loop1UInt, brand>>

(***************************************************************************)
(* main: the loop of lines 222-292.                                        *)
(***************************************************************************)
\* while (IrStepCount == 0) sleep_ms(250)
WaitSleep ==
  /\ pc = "wait"
  /\ IrStepCount = 0
  /\ UNCHANGED vars

\* the wait left without looking at the count
WaitExitUnchecked ==
  /\ pc = "wait"
  /\ pc' = "settle"
  /\ UNCHANGED <<capture, clock, decoder, buttons, Loop1UInt, brand>>

\* while (IrStepCount == 0) ends: a count other than 0 has been read
WaitExit ==
  /\ pc = "wait"
  /\ IrStepCount # 0
  /\ pc' = "settle"
  /\ UNCHANGED <<capture, clock, decoder, buttons, Loop1UInt, brand>>

\* sleep_ms(250), display_header, the menu text
Settle ==
  /\ pc = "settle"
  /\ pc' = "menu"
  /\ UNCHANGED <<capture, clock, decoder, buttons, Loop1UInt, brand>>

\* input_string returns <Enter> alone: continue
MenuEnter ==
  /\ pc = "menu"
  /\ pc' = "init"
  /\ UNCHANGED <<capture, clock, decoder, buttons, Loop1UInt, brand>>

\* case 1: enter_remote_id (brand and model strings only)
MenuRemoteId ==
  /\ pc = "menu"
  /\ pc' = "init"
  /\ UNCHANGED <<capture, clock, decoder, buttons, Loop1UInt, brand>>

\* case 2 followed by the menu again, the buffer kept
MenuTimingKeepsBurst ==
  /\ pc = "menu"
  /\ \E name \in Names :
       ButtonName' = IF IrStepCount = 0 THEN ButtonName ELSE name
  /\ pc' = "settle"
  /\ UNCHANGED <<capture, clock, decoder, RemoteData, RemoteDataTotal, Loop1UInt, brand>>

\* case 2: display_burst_timing(FLAG_ON) asks for the button name and prints
MenuTiming ==
  /\ pc = "menu"
  /\ \E name \in Names :
       ButtonName' = IF IrStepCount = 0 THEN ButtonName ELSE name
  /\ pc' = "init"
  /\ UNCHANGED <<capture, clock, decoder, RemoteData, RemoteDataTotal, Loop1UInt, brand>>

\* case 3: decode_ir_burst(FLAG_ON) up to its prompt for the button name
MenuDecode ==
  /\ pc = "menu"
  /\ pc' = IF IrStepCount = 0 THEN "init" ELSE "name"
  /\ UNCHANGED <<capture, clock, decoder, buttons, Loop1UInt, brand>>

\* case 4: display_button_list
MenuList ==
  /\ pc = "menu"
  /\ pc' = "init"
  /\ UNCHANGED <<capture, clock, decoder, buttons, Loop1UInt, brand>>

\* default: invalid choice
MenuInvalid ==
  /\ pc = "menu"
  /\ pc' = "init"
  /\ UNCHANGED <<capture, clock, decoder, buttons, Loop1UInt, brand>>

(***************************************************************************)
(* decode_ir_command.                                                      *)
(***************************************************************************)
\* what lines 53 and 137 print: IrStepCount and NUMBER_OF_STEPS
StepLine == [actual |-> IrStepCount, expected |-> NUMBER_OF_STEPS(brand)]

\* the locals after the initialisations of lines 45-48; Loop2UInt16 is never
\* assigned ("Loop2UInt16 - 0" at line 106) and holds what it is given
DecodeEntry(garbage) ==
  /\ BitNumber'   = 0
  /\ DataBuffer'  = Zero64
  /\ FlagError'   = FLAG_OFF
  /\ Loop1UInt16' = 0
  /\ Loop2UInt16' = garbage
  /\ EndOfData'   = <<>>
  /\ ErrorLog'    = <<>>
  /\ StepReport'  = <<StepLine>>
  /\ MaxRead'     = -1

\* decode_ir_burst: the name is typed, display_burst_timing(FLAG_OFF) prints,
\* decode_ir_command is entered
NameTyped ==
  /\ pc = "name"
  /\ \E name \in Names : ButtonName' = name
  /\ \E garbage \in Garbage16 : DecodeEntry(garbage)
  /\ pc' = "decode"
  /\ UNCHANGED <<capture, clock, RemoteData, RemoteDataTotal, Loop1UInt, brand>>

\* what a read of IrResultValue[i] and of IrLevel[i] can return: an index
\* outside the array reads whatever lies there
ResultAt(i) == IF i \in Slots THEN {IrResultValue[i]} ELSE JunkDur
LevelAt(i)  == IF i \in Slots THEN {IrLevel[i]} ELSE JunkLevel

\* line 72 with the test lost: no step is skipped
IsWakeUpNever(step) == FALSE

\* line 72: the steps of the wake-up pair are displayed and skipped (continue)
IsWakeUp(step) == step < NUMBER_OF_WAKEUP_STEPS

\* BitNumber of line 73, a UINT8
BitNumberOf(step) == (((step - NUMBER_OF_WAKEUP_STEPS) \div 2) + 1) % 256

\* lines 82-85: the accumulator after the pair whose high half lasted hi
FoldBit(data, bit, hi) ==
  IF bit > 0 /\ bit <= NUMBER_OF_BITS
    THEN IF Gt32(hi, TRIGGER_POINT_0_1) THEN Inc64(Shl64(data)) ELSE Shl64(data)
    ELSE data

\* line 100
IsSeparator(lo, hi) == Gt32(lo, SEPARATOR) \/ Gt32(hi, SEPARATOR)

\* one pass of the loop of lines 106-131 on an event of the given level and
\* duration; s holds DataBuffer, FlagError and the uart_send log
Verify(s, event, level, dur) ==
  IF level = 0
    THEN IF Gt32(dur, TRIGGER_POINT_0_1)
           THEN [s EXCEPT !.FlagError = FLAG_ON, !.ErrorLog = Append(@, event)]
           ELSE s
    ELSE IF Gt32(dur, TRIGGER_POINT_0_1) /\ Lt32(dur, TRIGGER_POINT_0_1 * 4)
           THEN [s EXCEPT !.DataBuffer = Inc64(Shl64(@))]
           ELSE [s EXCEPT !.DataBuffer = Shl64(@)]

\* the loop of lines 106-131 from the counter's value on entry
VerifyLoop(s, step, counter, lvLo, lo, lvHi, hi) ==
  LET s1 == IF counter = 0 THEN Verify(s, step, lvLo, lo) ELSE s
  IN  IF counter < 2 THEN Verify(s1, step + 1, lvHi, hi) ELSE s1

\* one iteration of the loop of line 70
DecodeStep ==
  /\ pc = "decode"
  /\ Loop1UInt16 < IrStepCount
  /\ \E lo \in ResultAt(Loop1UInt16), hi \in ResultAt(Loop1UInt16 + 1),
        lvLo \in LevelAt(Loop1UInt16), lvHi \in LevelAt(Loop1UInt16 + 1) :
       LET step == Loop1UInt16
           bit  == BitNumberOf(step)
           s0   == [DataBuffer |-> FoldBit(DataBuffer, bit, hi),
                    FlagError  |-> FlagError,
                    ErrorLog   |-> ErrorLog]
           s1   == VerifyLoop(s0, step, Loop2UInt16, lvLo, lo, lvHi, hi)
       IN  IF IsWakeUp(step)
             THEN /\ MaxRead' = IF step + 1 > MaxRead THEN step + 1 ELSE MaxRead
                  /\ UNCHANGED <<BitNumber, DataBuffer, FlagError, Loop2UInt16,
                                 EndOfData, ErrorLog>>
             ELSE /\ BitNumber' = bit
                  /\ MaxRead' = LET last == IF bit = 0 /\ Gt32(lo, SEPARATOR)
                                              THEN step ELSE step + 1
                                IN  IF last > MaxRead THEN last ELSE MaxRead
                  /\ IF IsSeparator(lo, hi)
                       THEN /\ DataBuffer' = s0.DataBuffer
                            /\ EndOfData' = Append(EndOfData, step)
                            /\ UNCHANGED <<FlagError, ErrorLog, Loop2UInt16>>
                       ELSE /\ DataBuffer' = s1.DataBuffer
                            /\ FlagError' = s1.FlagError
                            /\ ErrorLog' = s1.ErrorLog
                            /\ Loop2UInt16' = IF Loop2UInt16 < 2 THEN 2 ELSE Loop2UInt16
                            /\ UNCHANGED EndOfData
  /\ Loop1UInt16' = (Loop1UInt16 + 2) % B16
  /\ UNCHANGED <<capture, clock, buttons, pc, Loop1UInt, brand, StepReport>>

\* the loop exit with the burst marked as consumed
DecodeExitConsumes ==
  /\ pc = "decode"
  /\ Loop1UInt16 >= IrStepCount
  /\ pc' = "record"
  /\ StepReport' = Append(StepReport, StepLine)
  /\ IrStepCount' = 0
  /\ UNCHANGED <<IrFinalValue, IrInitialValue, IrLevel, IrResultValue, Overrun,
                 clock, buttons, Loop1UInt, brand, BitNumber, FlagError,
                 Loop1UInt16, Loop2UInt16, DataBuffer, EndOfData, ErrorLog, MaxRead>>

\* the loop ends: "Final data", then the prompt to record the button
DecodeExit ==
  /\ pc = "decode"
  /\ Loop1UInt16 >= IrStepCount
  /\ pc' = "record"
  /\ StepReport' = Append(StepReport, StepLine)
  /\ UNCHANGED <<capture, clock, buttons, Loop1UInt, brand, BitNumber, FlagError,
                 Loop1UInt16, Loop2UInt16, DataBuffer, EndOfData, ErrorLog, MaxRead>>

\* line 153: the value decode_ir_command returns, whatever it has decoded
Returned == "IR_COMMAND_TO_EXECUTE"

\* lines 143-149: <x> or <X> records the button.  RemoteData has
\* REMOTE_DATA_SIZE elements and the index is not checked: with
\* RemoteDataTotal >= REMOTE_DATA_SIZE the record is written outside the
\* table, which stays as it is.  limit bounds the records of a run.
Record(limit) ==
  /\ pc = "record"
  /\ RemoteDataTotal < limit
  /\ RemoteData' = IF RemoteDataTotal \in DOMAIN RemoteData
                     THEN [RemoteData EXCEPT ![RemoteDataTotal] =
                             [ButtonName |-> ButtonName, CommandId |-> DataBuffer]]
                     ELSE RemoteData
  /\ RemoteDataTotal' = (RemoteDataTotal + 1) % B16
  /\ pc' = "init"
  /\ UNCHANGED <<capture, clock, decoder, ButtonName, Loop1UInt, brand>>

RecordButton == Record(MaxRecords)

\* any other answer returns to the menu loop
RecordSkip ==
  /\ pc = "record"
  /\ pc' = "init"
  /\ UNCHANGED <<capture, clock, decoder, buttons, Loop1UInt, brand>>

(***************************************************************************)
(* The whole program: main has initialised its globals and enabled the     *)
(* interrupt (lines 152-215) and enters its loop.                          *)
(***************************************************************************)
Init ==
  /\ IrFinalValue    = [k \in Slots |-> Zero64]
  /\ IrInitialValue  = [k \in Slots |-> Zero64]
  /\ IrLevel         = [k \in Slots |-> 0]
  /\ IrResultValue   = [k \in Slots |-> Zero32]
  /\ IrStepCount     = 0
  /\ Overrun         = {}
  /\ ButtonName      = ""
  /\ RemoteData      = [k \in 0 .. (REMOTE_DATA_SIZE - 1) |-> NoButton]
  /\ RemoteDataTotal = 0
  /\ now             = Boot
  /\ line            = 1
  /\ edges           = 0
  /\ pc              = "init"
  /\ Loop1UInt       = 0
  /\ brand           = "Samsung"
  /\ BitNumber       = 0
  /\ FlagError       = FLAG_OFF
  /\ Loop1UInt16     = 0
  /\ Loop2UInt16     = 0
  /\ DataBuffer      = Zero64
  /\ EndOfData       = <<>>
  /\ ErrorLog        = <<>>
  /\ StepReport      = <<>>
  /\ MaxRead         = -1

\* the runs in which a store past the arrays hits nothing the program uses
Interrupt == Edge(Ticks, {0}, {"none"}, MaxEdges)

Next ==
  \/ Interrupt
  \/ ResetCount \/ ClearSlot \/ ResetReturn
  \/ WaitSleep \/ WaitExit \/ Settle
  \/ MenuEnter \/ MenuRemoteId \/ MenuTiming \/ MenuDecode \/ MenuList \/ MenuInvalid
  \/ NameTyped \/ DecodeStep \/ DecodeExit
  \/ RecordButton \/ RecordSkip

Spec == Init /\ [][Next]_vars

(***************************************************************************)
(* The main context is the only thread of the program and is interrupted   *)
(* for the length of a handler call only: each of its steps that waits for *)
(* no input (the reset, the test of line 233, the sleep of line 235) is    *)
(* taken in the end.  The menu waits for the user; of its options those    *)
(* that ask for nothing more (Enter, 1, 4, an invalid choice) are followed *)
(* here.                                                                   *)
(***************************************************************************)
MainStep == ResetCount \/ ClearSlot \/ ResetReturn \/ WaitExit \/ Settle

NextLive ==
  \/ Interrupt
  \/ ResetCount \/ ClearSlot \/ ResetReturn
  \/ WaitSleep \/ WaitExit \/ Settle
  \/ MenuEnter \/ MenuRemoteId \/ MenuList \/ MenuInvalid

SpecLive == Init /\ [][NextLive]_vars /\ WF_vars(MainStep)


(***************************************************************************)
(* A held button.  The main context has completed a reset and waits        *)
(* (line 233); edges keep arriving.                                        *)
(***************************************************************************)
CapIs(c) ==
  /\ IrFinalValue   = c.IrFinalValue
  /\ IrInitialValue = c.IrInitialValue
  /\ IrLevel        = c.IrLevel
  /\ IrResultValue  = c.IrResultValue
  /\ IrStepCount    = c.IrStepCount
  /\ Overrun        = c.Overrun

InitIdle ==
  /\ CapIs(ClearCap)
  /\ ButtonName      = ""
  /\ RemoteData      = [k \in 0 .. (REMOTE_DATA_SIZE - 1) |-> NoButton]
  /\ RemoteDataTotal = 0
  /\ now             = Boot
  /\ line            = 1
  /\ edges           = 0
  /\ pc              = "wait"
  /\ Loop1UInt       = MAX_IR_READINGS
  /\ brand           = "Samsung"
  /\ BitNumber       = 0
  /\ FlagError       = FLAG_OFF
  /\ Loop1UInt16     = 0
  /\ Loop2UInt16     = 0
  /\ DataBuffer      = Zero64
  /\ EndOfData       = <<>>
  /\ ErrorLog        = <<>>
  /\ StepReport      = <<>>
  /\ MaxRead         = -1

HeldButton == Edge(Ticks, {0}, Spills, MAX_IR_READINGS + MaxOverrun)

NextOverflow == HeldButton \/ WaitSleep \/ WaitExit \/ Settle

SpecOverflow == InitIdle /\ [][NextOverflow]_vars

(***************************************************************************)
(* The capture alone.  The main context waits (line 233) after a completed *)
(* reset; the handler is called for single edges, for two latched edges    *)
(* and for events that are not edges of IR_RX.  time_us_64() counts        *)
(* microseconds: two readings within one call return the same value or     *)
(* the later one returns one more.                                         *)
(***************************************************************************)
Skews == {0, 1}

Pulse    == Edge(Ticks, Skews, Spills, MaxCapture)
Latched  == EdgePair(Ticks, Skews, MaxCapture)
Stranger == Foreign(MaxCapture)

NextCapture == Pulse \/ Latched \/ Stranger \/ WaitSleep

SpecCapture == InitIdle /\ [][NextCapture]_vars

\* the capture alone, with idle periods longer than a UINT32 can hold
Timed     == Edge(Ticks, Skews, {"none"}, MaxEdges)
TimedPair == EdgePair(Ticks, Skews, MaxEdges)
Quiet     == Idle(MaxIdle)

NextElapsed == Timed \/ TimedPair \/ Quiet \/ WaitSleep

SpecElapsed == InitIdle /\ [][NextElapsed]_vars

(***************************************************************************)
(* Bursts as the handler captures them: a falling edge at time Boot, then  *)
(* alternating rising and falling edges after the given durations.         *)
(***************************************************************************)
\* the handler run on edge i of the burst, durs[i] after the edge before
FeedOne(r, durs, i) ==
  LET t      == Add64(r.now, U64(durs[i]))
      Events == IF i % 2 = 1 THEN GPIO_IRQ_EDGE_RISE ELSE GPIO_IRQ_EDGE_FALL
  IN  [cap |-> isr_signal_trap(r.cap, IR_RX, Events, t, 0), now |-> t,
       line |-> 1 - r.line, edges |-> r.edges + 1]

\* edges first .. last in turn.  The range is halved and the first half is
\* evaluated before the second is entered (the test on left.edges is always
\* true): this keeps the evaluation shallow for a long burst.
RECURSIVE Feed(_, _, _, _)
Feed(r, durs, first, last) ==
  IF first > last THEN r
  ELSE IF first = last THEN FeedOne(r, durs, first)
  ELSE LET mid  == (first + last) \div 2
           left == Feed(r, durs, first, mid)
       IN  IF left.edges >= 0 THEN Feed(left, durs, mid + 1, last) ELSE left

BurstOf(durs) ==
  Feed([cap |-> isr_signal_trap(ClearCap, IR_RX, GPIO_IRQ_EDGE_FALL, Boot, 0),
        now |-> Boot, line |-> 0, edges |-> 1],
       durs, 1, Len(durs))

\* bit i (1 = most significant) of a 32-bit word given as two limbs
RECURSIVE Pow2(_)
Pow2(n) == IF n = 0 THEN 1 ELSE 2 * Pow2(n - 1)
BitOf(word, i) == (word[((i - 1) \div 16) + 1] \div Pow2(15 - ((i - 1) % 16))) % 2

\* the pulse-distance code of a word: the wake-up pair, then one low/high
\* pair per bit, most significant bit first
Encode(word, t) ==
  <<t.wake, t.wake>> \o
  [j \in 1 .. (2 * NUMBER_OF_BITS) |->
     IF j % 2 = 1 THEN t.low
     ELSE IF BitOf(word, j \div 2) = 1 THEN t.one ELSE t.zero]

Words == { <<\h2525, \h609F>>, <<\hE0E0, \h40BF>>, <<0, 0>>,
           <<\hFFFF, \hFFFF>>, <<\h8000, 1>>, <<\h7FFF, \hFFFE>> }

SamsungTiming == [wake |-> 4450, low |-> 550, zero |-> 550, one |-> 1675]
MemorexTiming == [wake |-> 4450, low |-> 475, zero |-> 650, one |-> 1750]
EdgeTiming    == [wake |-> 4450, low |-> TRIGGER_POINT_0_1,
                  zero |-> TRIGGER_POINT_0_1, one |-> TRIGGER_POINT_0_1 + 1]
Timings == {SamsungTiming, MemorexTiming, EdgeTiming}

EncodedBursts ==
  { [word |-> w, timing |-> t, burst |-> BurstOf(Encode(w, t))] :
      w \in Words, t \in Timings }

\* short bursts of freely chosen durations
WakeDurs  == {4450, 15000}
ShortDurs == {550, 1675, 15000}
ShortSeqs ==
  UNION { { [j \in 1 .. n |-> IF j <= NUMBER_OF_WAKEUP_STEPS THEN w ELSE d[j]] :
              w \in WakeDurs, d \in [1 .. n -> ShortDurs] } : n \in 1 .. MaxShort }
ShortBursts == { BurstOf(q) : q \in ShortSeqs }

\* a button held until the step count passes the capacity of the arrays and
\* the range of the UINT8 bit number: first data bit 1, every other bit 0
LongSteps == NUMBER_OF_WAKEUP_STEPS + (2 * 256) + 3
LongBurst ==
  BurstOf([j \in 1 .. LongSteps |->
             IF j <= NUMBER_OF_WAKEUP_STEPS THEN 4450
             ELSE IF j = NUMBER_OF_WAKEUP_STEPS + 2 THEN 1675 ELSE 550])

\* whole frames of the Samsung Power button: the 32 bits, the closing low
\* phase and the gap before the frame is repeated (68 steps); the frame and
\* its repetition (135 steps, NUMBER_OF_STEPS of Samsung.c); and a frame cut
\* after 73 steps (NUMBER_OF_STEPS of Memorex.c)
PowerFrame == Encode(<<\hE0E0, \h40BF>>, SamsungTiming)
FrameGap   == <<550, 46000>>
FrameSeqs  == { PowerFrame \o FrameGap,
                PowerFrame \o FrameGap \o PowerFrame \o <<550>>,
                SubSeq(PowerFrame \o FrameGap \o PowerFrame, 1, 73) }
FrameBursts == { BurstOf(q) : q \in FrameSeqs }

\* a data pair whose high phase is longer than any bit (above
\* TRIGGER_POINT_0_1 * 4, line 125) and shorter than SEPARATOR
GlitchSeqs   == { <<4450, 4450, 550, 5000, 550, 1675>>,
                  <<4450, 4450, 550, 1675, 550, 5000, 550, 550>> }
GlitchBursts == { BurstOf(q) : q \in GlitchSeqs }

Bursts ==
  { e.burst : e \in EncodedBursts } \cup ShortBursts \cup {LongBurst} \cup FrameBursts
    \cup GlitchBursts

(***************************************************************************)
(* decode_ir_command on its own: it is entered with a captured burst in    *)
(* the buffer and no further edge arrives.                                 *)
(***************************************************************************)
DecodeStart(bursts, totals) ==
  \E b \in bursts, garbage \in Garbage16, total \in totals :
    /\ CapIs(b.cap)
    /\ now   = b.now
    /\ line  = b.line
    /\ edges = 0
    /\ ButtonName      \in Names
    /\ RemoteData      = [k \in 0 .. (REMOTE_DATA_SIZE - 1) |->
                            IF k < total THEN Recorded ELSE NoButton]
    /\ RemoteDataTotal = total
    /\ pc              = "decode"
    /\ Loop1UInt       = MAX_IR_READINGS
    /\ brand           \in {"Samsung", "Memorex"}
    /\ BitNumber       = 0
    /\ FlagError       = FLAG_OFF
    /\ Loop1UInt16     = 0
    /\ Loop2UInt16     = garbage
    /\ DataBuffer      = Zero64
    /\ EndOfData       = <<>>
    /\ ErrorLog        = <<>>
    /\ StepReport      = <<StepLine>>
    /\ MaxRead         = -1

InitDecode == DecodeStart(Bursts, {0})

NextDecode == DecodeStep \/ DecodeExit \/ RecordButton \/ RecordSkip

SpecDecode == InitDecode /\ [][NextDecode]_vars

(***************************************************************************)
(* The decoder when the table of buttons is nearly full or full: 255 or    *)
(* 256 buttons have been recorded.                                         *)
(***************************************************************************)
InitTable == DecodeStart(GlitchBursts, {REMOTE_DATA_SIZE - 1, REMOTE_DATA_SIZE})

RecordPastEnd == Record(REMOTE_DATA_SIZE + MaxOverrun)

NextTable == DecodeStep \/ DecodeExit \/ RecordPastEnd \/ RecordSkip

SpecTable == InitTable /\ [][NextTable]_vars


(***************************************************************************)
(* The whole program with the buffer two events short of its capacity: a   *)
(* button was held while the user had not yet answered the menu.           *)
(***************************************************************************)
NearFull == BurstOf([j \in 1 .. (MAX_IR_READINGS - 2) |-> 550])

InitNearFull ==
  /\ CapIs(NearFull.cap)
  /\ now             = NearFull.now
  /\ line            = NearFull.line
  /\ edges           = 0
  /\ ButtonName      = ""
  /\ RemoteData      = [k \in 0 .. (REMOTE_DATA_SIZE - 1) |-> NoButton]
  /\ RemoteDataTotal = 0
  /\ pc              = "menu"
  /\ Loop1UInt       = MAX_IR_READINGS
  /\ brand           = "Samsung"
  /\ BitNumber       = 0
  /\ FlagError       = FLAG_OFF
  /\ Loop1UInt16     = 0
  /\ Loop2UInt16     = 0
  /\ DataBuffer      = Zero64
  /\ EndOfData       = <<>>
  /\ ErrorLog        = <<>>
  /\ StepReport      = <<>>
  /\ MaxRead         = -1

SpecNearFull == InitNearFull /\ [][Next]_vars


(***************************************************************************)
(* Properties.                                                             *)
(***************************************************************************)
\* slot k as init_burst_variables leaves it
Cleared(k) ==
  /\ IrInitialValue[k] = Zero64
  /\ IrFinalValue[k]   = Zero64
  /\ IrResultValue[k]  = Zero32
  /\ IrLevel[k]        = LEVEL_UNDEFINED

\* the data pair at step s (s even, both halves inside the arrays) exceeds
\* the separator threshold
SeparatorAt(s) ==
  /\ s >= NUMBER_OF_WAKEUP_STEPS
  /\ s % 2 = 0
  /\ s + 1 \in Slots
  /\ IsSeparator(IrResultValue[s], IrResultValue[s + 1])

\* the value the data pairs at steps below s spell, most significant first
RECURSIVE ValueBefore(_)
ValueBefore(s) ==
  IF s <= NUMBER_OF_WAKEUP_STEPS THEN Zero64
  ELSE LET prev == ValueBefore(s - 2)
       IN  IF Gt32(IrResultValue[s - 1], TRIGGER_POINT_0_1)
             THEN Inc64(Shl64(prev)) ELSE Shl64(prev)

\* a 32-bit word as the UINT64 the decoder accumulates
Value64(word) == <<0, 0, word[1], word[2]>>

\* the buffer holds exactly the events of burst b
Holds(b) ==
  /\ IrStepCount   = b.cap.IrStepCount
  /\ IrResultValue = b.cap.IrResultValue
  /\ IrLevel       = b.cap.IrLevel

\* C1: in every reachable state the step count is at most MAX_IR_READINGS and
\* the interrupt handler has written no capture array at an index
\* >= MAX_IR_READINGS.
C1_CaptureStaysInBounds ==
  /\ IrStepCount <= MAX_IR_READINGS
  /\ Overrun = {}

\* C2: once the count has reached MAX_IR_READINGS no further event is
\* appended until the reset, and decode_ir_command is never entered on a
\* burst that received a transition while the count was MAX_IR_READINGS.
C2_OverflowAbortsBurst ==
  [][ /\ IrStepCount = MAX_IR_READINGS => IrStepCount' \in {MAX_IR_READINGS, 0}
      /\ pc' = "decode" => IrStepCount' <= MAX_IR_READINGS ]_vars

\* C3: from the start to the end of one decode_ir_command call no step
\* changes IrStepCount or a recorded level or duration.
C3_DecoderReadsFixedBuffer ==
  [][ pc = "decode" /\ pc' \in {"decode", "record"}
        => /\ IrStepCount'   = IrStepCount
           /\ IrResultValue' = IrResultValue
           /\ IrLevel'       = IrLevel ]_vars

\* C4: no interrupt is handled between the zeroing of the count and the
\* return of init_burst_variables, and when it returns the count is 0 and
\* every slot of every capture array is cleared.
C4_ResetNotInterleaved ==
  [][ /\ pc = "clear" => edges' = edges
      /\ pc = "clear" /\ pc' = "wait"
           => IrStepCount = 0 /\ \A k \in Slots : Cleared(k) ]_vars

\* C5: round trip: whenever the buffer holds the pulse-distance code of a
\* 32-bit word X (wake-up pair, then 32 low/high pairs, all durations valid),
\* the decoder ends with DataBuffer = X, no error flag and no diagnostic.
C5_RoundTrip ==
  pc = "record" =>
    \A e \in EncodedBursts :
      Holds(e.burst) =>
        /\ DataBuffer = Value64(e.word)
        /\ FlagError = FLAG_OFF
        /\ EndOfData = <<>>
        /\ ErrorLog = <<>>

\* C6: the Memorex decoder turns the code of 0x2525609F into 0x2525609F with
\* no error flag, and the Samsung decoder turns the code of 0xE0E040BF into
\* 0xE0E040BF with no error flag.
MemorexScenario == BurstOf(Encode(<<\h2525, \h609F>>, MemorexTiming))
SamsungScenario == BurstOf(Encode(<<\hE0E0, \h40BF>>, SamsungTiming))
C6_BrandScenarios ==
  pc = "record" =>
    /\ brand = "Memorex" /\ Holds(MemorexScenario)
         => DataBuffer = Value64(<<\h2525, \h609F>>) /\ FlagError = FLAG_OFF
    /\ brand = "Samsung" /\ Holds(SamsungScenario)
         => DataBuffer = Value64(<<\hE0E0, \h40BF>>) /\ FlagError = FLAG_OFF

\* C7: once the loop has passed a data pair that exceeds the separator
\* threshold, no later pair changes the value or records a bit-level error.
C7_SeparatorStopsBitLoop ==
  [][ pc = "decode" /\ (\E s \in 0 .. (Loop1UInt16 - 2) : SeparatorAt(s))
        => /\ DataBuffer' = DataBuffer
           /\ FlagError'  = FlagError
           /\ ErrorLog'   = ErrorLog ]_vars

\* C8: when the first data pair exceeding the separator threshold is at step
\* s, the decoded value is made of the pairs at steps below s only, and
\* exactly one end-of-data diagnostic is reported, for step s.
C8_SeparatorPairAddsNoBit ==
  pc = "record" =>
    \A s \in 0 .. (IrStepCount - 1) :
      SeparatorAt(s) /\ (\A r \in 0 .. (s - 1) : ~SeparatorAt(r))
        => /\ DataBuffer = ValueBefore(s)
           /\ EndOfData = <<s>>

\* C9: every index the decoder reads is below the captured count.
C9_ReadsBelowCount == MaxRead < IrStepCount

\* C10: the decoded value is below 2^NUMBER_OF_BITS.
C10_ValueFitsBitCount == DataBuffer[1] = 0 /\ DataBuffer[2] = 0

\* the decoder is about to process the pair at step Loop1UInt16, a data pair
\* that lies inside the arrays
AtDataPair ==
  /\ pc = "decode"
  /\ Loop1UInt16 < IrStepCount
  /\ Loop1UInt16 >= NUMBER_OF_WAKEUP_STEPS
  /\ Loop1UInt16 + 1 \in Slots

\* the step that follows the last data pair
DataEnd == NUMBER_OF_WAKEUP_STEPS + (2 * NUMBER_OF_BITS)

\* the only verdict the call gives its caller is its return value
Valid == Returned = "IR_COMMAND_TO_EXECUTE"

\* an "Error IrLevel <L>" message has been sent
AnomalyRecorded == FlagError = FLAG_ON \/ ErrorLog # <<>>

\* "Reaching end of data bits" was printed for the step after the last bit
EndAtBoundary == \E i \in 1 .. Len(EndOfData) : EndOfData[i] = DataEnd

\* the count is within one pair of NUMBER_OF_STEPS
NearExpected ==
  /\ IrStepCount + 2 >= NUMBER_OF_STEPS(brand)
  /\ IrStepCount <= NUMBER_OF_STEPS(brand) + 2

\* C11: a data pair with bit number in 1 .. NUMBER_OF_BITS and no duration
\* above SEPARATOR shifts DataBuffer left once and sets its low bit exactly
\* when the high phase lasted more than TRIGGER_POINT_0_1 (a high phase of
\* exactly TRIGGER_POINT_0_1 gives 0).
C11_BitFromHighPhase ==
  [][ /\ AtDataPair
      /\ BitNumberOf(Loop1UInt16) \in 1 .. NUMBER_OF_BITS
      /\ ~IsSeparator(IrResultValue[Loop1UInt16], IrResultValue[Loop1UInt16 + 1])
      => DataBuffer' = IF Gt32(IrResultValue[Loop1UInt16 + 1], TRIGGER_POINT_0_1)
                         THEN Inc64(Shl64(DataBuffer)) ELSE Shl64(DataBuffer) ]_vars

\* C12: the call reports the command valid exactly when no bit-level error
\* was recorded and the count is within one pair of NUMBER_OF_STEPS or the end
\* of data was found right after the last bit.
C12_ValidIffClean ==
  pc = "record" =>
    (Valid <=> ~AnomalyRecorded /\ (NearExpected \/ EndAtBoundary))

\* C13: when the call reports the command valid, DataBuffer is a complete
\* word: NUMBER_OF_BITS data pairs were captured, none of them is a separator
\* pair, and DataBuffer is what these pairs spell.
C13_ValidMeansCompleteWord ==
  pc = "record" /\ Valid =>
    /\ IrStepCount >= DataEnd
    /\ \A s \in 0 .. (DataEnd - 2) : ~SeparatorAt(s)
    /\ DataBuffer = ValueBefore(DataEnd)

\* C14: a step-count mismatch is reported exactly when the count differs from
\* NUMBER_OF_STEPS and the end of data was not found right after the last bit.
MismatchReported ==
  \E i \in 1 .. Len(StepReport) : StepReport[i].actual # StepReport[i].expected
C14_MismatchIffUnexpectedCount ==
  pc = "record" =>
    (MismatchReported <=>
       IrStepCount # NUMBER_OF_STEPS(brand) /\ ~EndAtBoundary)

\* C15: a data pair whose low phase lasted more than TRIGGER_POINT_0_1, with
\* no duration above SEPARATOR, has its step reported as a bit-level error
\* and changes DataBuffer only as its high phase alone decides.
C15_LongLowPhaseReported ==
  [][ /\ AtDataPair
      /\ Gt32(IrResultValue[Loop1UInt16], TRIGGER_POINT_0_1)
      /\ ~IsSeparator(IrResultValue[Loop1UInt16], IrResultValue[Loop1UInt16 + 1])
      => /\ ErrorLog' = Append(ErrorLog, Loop1UInt16)
         /\ DataBuffer' = FoldBit(DataBuffer, BitNumberOf(Loop1UInt16),
                                  IrResultValue[Loop1UInt16 + 1]) ]_vars

\* C16: no pair after the NUMBER_OF_BITS data pairs changes DataBuffer.
C16_ExtraPairsLeaveValue ==
  [][ pc = "decode" /\ Loop1UInt16 < IrStepCount /\ Loop1UInt16 >= DataEnd
        => DataBuffer' = DataBuffer ]_vars

\* C18: during one scan the step index only moves up by 2, and it moves at
\* most ceil(MAX_IR_READINGS / 2) times.
ScanLimit == (MAX_IR_READINGS + 1) \div 2
C18_ScanBounded ==
  [][ pc = "decode" /\ Loop1UInt16' # Loop1UInt16
        => /\ Loop1UInt16' = Loop1UInt16 + 2
           /\ Loop1UInt16' <= 2 * ScanLimit ]_vars

(***************************************************************************)
(* decode_ir_command as a function of the buffer and of what its           *)
(* unassigned local holds on entry, for a burst that lies inside the       *)
(* arrays.                                                                 *)
(***************************************************************************)
\* the locals after lines 45-48
ScanEntry(garbage) ==
  [BitNumber |-> 0, DataBuffer |-> Zero64, FlagError |-> FLAG_OFF,
   Loop2UInt16 |-> garbage, EndOfData |-> <<>>, ErrorLog |-> <<>>]

\* one iteration of the loop of line 70, at the given step
ScanPair(s, step) ==
  IF IsWakeUp(step) THEN s
  ELSE LET bit == BitNumberOf(step)
           lo  == IrResultValue[step]
           hi  == IrResultValue[step + 1]
           s0  == [s EXCEPT !.BitNumber = bit,
                            !.DataBuffer = FoldBit(@, bit, hi)]
           s1  == VerifyLoop(s0, step, s.Loop2UInt16,
                             IrLevel[step], lo, IrLevel[step + 1], hi)
       IN  IF IsSeparator(lo, hi)
             THEN [s0 EXCEPT !.EndOfData = Append(@, step)]
             ELSE [s1 EXCEPT !.Loop2UInt16 = IF @ < 2 THEN 2 ELSE @]

\* the loop of line 70 from the given step on
RECURSIVE Scan(_, _)
Scan(s, step) ==
  IF step >= IrStepCount THEN s ELSE Scan(ScanPair(s, step), step + 2)

\* what a call delivers: the value, the error flag and the messages
Delivered(s) == <<s.DataBuffer, s.FlagError, s.ErrorLog, s.EndOfData>>

\* C17: the call delivers what any other call on the same buffer delivers,
\* whatever the unassigned local holds when that call is entered.
C17_DecodeIsAFunctionOfTheBuffer ==
  pc = "record" /\ IrStepCount < MAX_IR_READINGS =>
    \A garbage \in Garbage16 :
      Delivered(Scan(ScanEntry(garbage), 0))
        = <<DataBuffer, FlagError, ErrorLog, EndOfData>>

\* C19: once init_burst_variables has returned with the buffer cleared, the
\* first interrupt, from a falling or a rising edge, leaves the count at 0
\* and writes no final value, duration or level.
C19_FirstEdgeAppendsNothing ==
  [][ /\ pc = "wait"
      /\ IrStepCount = 0
      /\ \A k \in Slots : Cleared(k)
      /\ edges' # edges
      => /\ IrStepCount' = 0
         /\ IrFinalValue' = IrFinalValue
         /\ IrResultValue' = IrResultValue
         /\ IrLevel' = IrLevel ]_vars

\* the burst has had its first edge: a start time or a step is recorded
BurstStarted == IrStepCount > 0 \/ IrInitialValue[0] # Zero64

\* C20: every edge after the first of a burst stores one event in slot
\* IrStepCount and adds 1 to IrStepCount; the level stored is the level the
\* edge ends and the duration is the time of the edge minus the start time
\* recorded for the slot.
C20_EdgeAppendsOneEvent ==
  [][ edges' # edges /\ BurstStarted
        => /\ IrStepCount \in Slots
           /\ IrStepCount' = IrStepCount + 1
           /\ IrLevel'[IrStepCount] = line
           /\ IrResultValue'[IrStepCount]
                = Trunc32(Sub64(now', IrInitialValue[IrStepCount])) ]_vars

(***************************************************************************)
(* C21.  The start time of the level that begins at a transition is the    *)
(* timestamp that closed the level before it: for every appended event k,  *)
(* IrInitialValue[k + 1] = IrFinalValue[k].                                *)
(***************************************************************************)
C21_StartIsPreviousEnd ==
  \A k \in Slots :
    k < IrStepCount /\ k + 1 \in Slots => IrInitialValue[k + 1] = IrFinalValue[k]

(***************************************************************************)
(* C22.  The buffer handed to the decoder holds the events of one burst:   *)
(* once the main context has taken the burst as complete (the menu is      *)
(* shown, line 251) no transition is appended behind its events until the  *)
(* buffer has been reset.                                                  *)
(***************************************************************************)
C22_OneBurstPerBuffer ==
  [][ (pc \in {"menu", "name", "decode", "record"}) => IrStepCount' = IrStepCount ]_vars

(***************************************************************************)
(* C23.  A recorded event is immutable until the next reset: the level and *)
(* the duration stored at an index below the count change only in a step   *)
(* of init_burst_variables, never in a call of the interrupt handler.      *)
(***************************************************************************)
C23_RecordedEventsImmutable ==
  [][ \A i \in Slots :
        i < IrStepCount /\ (IrLevel'[i] # IrLevel[i] \/ IrResultValue'[i] # IrResultValue[i])
          => pc = "clear" /\ edges' = edges ]_vars

(***************************************************************************)
(* C24.  In every execution of decode_ir_command, whatever its locals hold *)
(* on entry, the body of the loop on Loop2UInt16 is not executed (the      *)
(* counter, advanced once per pass, keeps its value) and neither is the    *)
(* switch placed after the return (its default branch would set            *)
(* FlagError).                                                             *)
(***************************************************************************)
C24_DeadCodeNeverRuns ==
  [][ /\ pc = "decode" => Loop2UInt16' = Loop2UInt16
      /\ pc = "record" => FlagError' = FlagError ]_vars

(***************************************************************************)
(* C25.  A data pair whose high phase lasts longer than                    *)
(* TRIGGER_POINT_0_1 * 4 (3000 us) without exceeding SEPARATOR is reported *)
(* as an anomaly of that event, and decoding goes on.                      *)
(***************************************************************************)
C25_LongHighPhaseReported ==
  [][ /\ AtDataPair
      /\ Loop1UInt16 + 1 < IrStepCount
      /\ Gt32(IrResultValue[Loop1UInt16 + 1], TRIGGER_POINT_0_1 * 4)
      /\ ~IsSeparator(IrResultValue[Loop1UInt16], IrResultValue[Loop1UInt16 + 1])
      => /\ Len(ErrorLog') > Len(ErrorLog)
         /\ ErrorLog'[Len(ErrorLog')] = Loop1UInt16 + 1
         /\ pc' = "decode" ]_vars

(***************************************************************************)
(* C26.  The wake-up pair is never decoded into the command.  The          *)
(* iteration of the wake-up steps changes nothing the decoder accumulates, *)
(* whatever the durations of the pair (above SEPARATOR too) and whatever   *)
(* Loop2UInt16 holds; and the value delivered for a burst held by the      *)
(* arrays is a value the scan of the events from NUMBER_OF_WAKEUP_STEPS on *)
(* delivers, so two bursts that differ in the wake-up pair only have the   *)
(* same values.                                                            *)
(***************************************************************************)
C26_WakeUpNotDecoded ==
  [][ /\ (pc = "decode" /\ Loop1UInt16 < NUMBER_OF_WAKEUP_STEPS)
           => UNCHANGED <<BitNumber, DataBuffer, FlagError, Loop2UInt16, EndOfData, ErrorLog>>
      /\ (pc = "decode" /\ pc' = "record" /\ IrStepCount <= MAX_IR_READINGS)
           => DataBuffer' \in { Scan(ScanEntry(garbage), NUMBER_OF_WAKEUP_STEPS).DataBuffer :
                                  garbage \in Garbage16 } ]_vars

\* a burst whose wake-up pair is longer than SEPARATOR has delivered a value
C26_Witness ==
  /\ pc = "record"
  /\ IrStepCount > NUMBER_OF_WAKEUP_STEPS
  /\ Gt32(IrResultValue[0], SEPARATOR)
  /\ Gt32(IrResultValue[1], SEPARATOR)
  /\ DataBuffer # Zero64
  /\ EndOfData = <<>>

(***************************************************************************)
(* C27.  Under strictly alternating transitions that start with a falling  *)
(* edge after a completed reset, every event below the count has a slot    *)
(* whose level is 0 at an even index and 1 at an odd index, never          *)
(* LEVEL_UNDEFINED.                                                        *)
(***************************************************************************)
C27_LevelsAlternate ==
  \A i \in 0 .. (IrStepCount - 1) : i \in Slots /\ IrLevel[i] = i % 2

(***************************************************************************)
(* C28.  Each captured burst is consumed by at most one menu action.       *)
(* Whatever is entered at the menu, the main context goes on to            *)
(* init_burst_variables (option 3 after its decode and record prompts),    *)
(* which zeroes the count and clears all slots before the wait of line     *)
(* 233; the menu is shown again only after the wait has seen a count other *)
(* than 0, that is after a new transition.                                 *)
(***************************************************************************)
C28_OneActionPerBurst ==
  [][ /\ (pc = "menu" /\ pc' # "menu") => pc' \in {"init", "name"}
      /\ (pc = "name" /\ pc' # "name") => pc' = "decode"
      /\ (pc = "decode" /\ pc' # "decode") => pc' = "record"
      /\ (pc = "record" /\ pc' # "record") => pc' = "init"
      /\ (pc = "init" /\ pc' # "init") => pc' = "clear" /\ IrStepCount' = 0
      /\ (pc = "clear" /\ pc' # "clear") => pc' = "wait" /\ Loop1UInt = MAX_IR_READINGS
      /\ (pc = "wait" /\ pc' # "wait") => pc' = "settle" /\ IrStepCount # 0
      /\ (pc = "settle" /\ pc' # "settle") => pc' = "menu" ]_vars

\* a burst was displayed with option 2 (its name was typed, nothing was
\* decoded), the buffer has been reset and the main context waits
C28_Witness ==
  /\ pc = "wait"
  /\ ButtonName # ""
  /\ StepReport = <<>>
  /\ edges > 0
  /\ IrStepCount = 0
  /\ \A k \in Slots : Cleared(k)

(***************************************************************************)
(* C29.  decode_ir_command is never invoked with an empty buffer: from the *)
(* menu to the end of the decoder's loop the count is at least 1.          *)
(***************************************************************************)
C29_DecodeNeverEmpty ==
  pc \in {"settle", "menu", "name", "decode"} => IrStepCount >= 1

\* decode_ir_command has just been entered
C29_Witness ==
  /\ pc = "decode"
  /\ Loop1UInt16 = 0
  /\ MaxRead = -1
  /\ StepReport = <<StepLine>>
  /\ IrStepCount >= 1
  /\ edges > 0

(***************************************************************************)
(* C30.  The main loop stays in its wait as long as IrStepCount is 0, and  *)
(* once the handler has appended an event after the count was zeroed,      *)
(* during the clearing loop or during the wait, the loop leaves the wait   *)
(* and shows the menu.                                                     *)
(***************************************************************************)
C30_AppendLeadsToMenu ==
  /\ [][ (pc = "wait" /\ IrStepCount = 0) => pc' = "wait" ]_vars
  /\ ((pc \in {"clear", "wait"} /\ IrStepCount # 0) ~> (pc = "menu"))

\* the menu is shown for an event that was appended before the clearing loop
\* reached its slot (slot 0 has been cleared since)
C30_Witness ==
  /\ pc = "menu"
  /\ IrStepCount >= 1
  /\ Cleared(0)

(***************************************************************************)
(* C31.  With n complete data pairs, n < NUMBER_OF_BITS, and no separator  *)
(* pair among them, the value delivered is the n-bit number the pairs      *)
(* spell, first pair most significant, right-aligned and not padded.       *)
(***************************************************************************)
C31_PartialWordRightAligned ==
  ( /\ pc = "record"
    /\ IrStepCount % 2 = 0
    /\ IrStepCount > NUMBER_OF_WAKEUP_STEPS
    /\ IrStepCount <= MAX_IR_READINGS
    /\ (IrStepCount - NUMBER_OF_WAKEUP_STEPS) \div 2 < NUMBER_OF_BITS
    /\ \A s \in NUMBER_OF_WAKEUP_STEPS .. (IrStepCount - 1) : ~SeparatorAt(s) )
  => DataBuffer = ValueBefore(IrStepCount)

(***************************************************************************)
(* C32.  decode_ir_burst and decode_ir_command leave the capture state     *)
(* unchanged: no step of theirs changes IrStepCount, a level, a duration   *)
(* or a timestamp.  The count grows in calls of the interrupt handler      *)
(* only, and it is set back, to 0, by init_burst_variables only.           *)
(***************************************************************************)
C32_DecodeKeepsCapture ==
  [][ /\ ((pc \in {"name", "decode", "record"} \/ (pc = "menu" /\ pc' = "name"))
            /\ edges' = edges)
          => UNCHANGED <<IrFinalValue, IrInitialValue, IrLevel, IrResultValue, IrStepCount>>
      /\ IrStepCount' > IrStepCount => edges' = edges + 1
      /\ IrStepCount' < IrStepCount => pc = "init" /\ IrStepCount' = 0 ]_vars

\* decode_ir_command has run to its return and the burst is still recorded
C32_Witness ==
  /\ pc = "init"
  /\ Len(StepReport) = 2
  /\ StepReport[1] = StepReport[2]
  /\ IrStepCount = StepReport[2].actual
  /\ IrStepCount >= 1
  /\ ~Cleared(0)

(***************************************************************************)
(* C33.  After a decode the answer to the record prompt either stores      *)
(* exactly one new entry, the current button name with the value just      *)
(* decoded, at index RemoteDataTotal of the table and adds 1 to            *)
(* RemoteDataTotal, all other entries unchanged, or (any answer but x, X)  *)
(* leaves RemoteData and RemoteDataTotal unchanged.                        *)
(***************************************************************************)
C33_RecordStoresOneEntry ==
  [][ (pc = "record" /\ pc' # "record")
        => \/ UNCHANGED <<RemoteData, RemoteDataTotal>>
           \/ /\ RemoteDataTotal \in DOMAIN RemoteData
              /\ RemoteData' = [RemoteData EXCEPT ![RemoteDataTotal] =
                                  [ButtonName |-> ButtonName, CommandId |-> DataBuffer]]
              /\ RemoteDataTotal' = RemoteDataTotal + 1 ]_vars

(***************************************************************************)
(* C34.  After any sequence of decode-and-record operations                *)
(* RemoteDataTotal is at most REMOTE_DATA_SIZE, the capacity of the table, *)
(* and no record has been written at an index >= REMOTE_DATA_SIZE.         *)
(***************************************************************************)
C34_TableStaysInBounds == RemoteDataTotal <= REMOTE_DATA_SIZE

(***************************************************************************)
(* C35.  A call of the interrupt handler for a gpio other than IR_RX, or   *)
(* with neither edge bit set in Events, leaves IrStepCount and the four    *)
(* capture arrays unchanged.  (Such a call is the one step that counts as  *)
(* an interrupt while the clock reading and the level of the IR_RX input   *)
(* stay as they are.)                                                      *)
(***************************************************************************)
C35_ForeignEventKeepsCapture ==
  [][ (edges' = edges + 1 /\ now' = now /\ line' = line)
        => UNCHANGED <<IrStepCount, IrFinalValue, IrInitialValue, IrLevel, IrResultValue>> ]_vars

\* two edges have recorded one event and the handler has been called once
\* more, for an event that is no edge of IR_RX
C35_Witness ==
  /\ edges = 3
  /\ now = Add64(Boot, U64(1100))
  /\ IrStepCount = 1
  /\ IrLevel[0] = 0
  /\ IrResultValue[0] = <<0, 550>>

(***************************************************************************)
(* C36: the duration stored for an event is the 64-bit difference between  *)
(* the final timestamp of its slot and the initial timestamp the slot held *)
(* when the handler was called, reduced modulo 2^32; when that difference  *)
(* is below 2^32 microseconds and the initial timestamp is not the reset   *)
(* value 0, the stored duration is the difference itself.                  *)
(***************************************************************************)
C36_DurationIsDifferenceMod32 ==
  [][ \A k \in {j \in IrStepCount .. (IrStepCount' - 1) : j \in Slots} :
        LET start == IF k = IrStepCount THEN IrInitialValue[k]
                                        ELSE IrInitialValue'[k]
            d     == Sub64(IrFinalValue'[k], start)
        IN  /\ IrResultValue'[k] = <<d[3], d[4]>>
            /\ (d[1] = 0 /\ d[2] = 0 /\ start # Zero64)
                 => <<0, 0>> \o IrResultValue'[k] = d ]_vars

\* an event that lasted 2^32 + 550 microseconds is stored with duration 550,
\* next to one of 550 microseconds stored with the same duration
C36_Witness ==
  /\ IrStepCount = 2
  /\ Sub64(IrFinalValue[0], IrInitialValue[0]) = <<0, 1, 0, 550>>
  /\ IrResultValue[0] = <<0, 550>>
  /\ Sub64(IrFinalValue[1], IrInitialValue[1]) = <<0, 0, 0, 550>>
  /\ IrResultValue[1] = <<0, 550>>

=============================================================================
